---- MODULE Spec2Model ----
(***************************************************************************)
(* Model of the article ingestion endpoint (src/api/spider.js): the        *)
(* HTML-to-text reduction extractContent and the request handler with its  *)
(* page fetch under a deadline timer and its read-modify-write of the      *)
(* queue document pending.json in the object store.                        *)
(*                                                                         *)
(* Strings that the code inspects character by character (page markup,     *)
(* titles, texts) are sequences of one-character strings.                  *)
(***************************************************************************)
EXTENDS Integers, Sequences, FiniteSets, TLC

(***************************************************************************)
(* String helpers: the JavaScript string and RegExp primitives used by     *)
(* extractContent.                                                         *)
(***************************************************************************)

\* The /i flag: case folding over the letters of the model's alphabet.
Lower(c) ==
  CASE c = "S" -> "s"
    [] c = "T" -> "t"
    [] c = "C" -> "c"
    [] c = "R" -> "r"
    [] c = "I" -> "i"
    [] c = "P" -> "p"
    [] c = "L" -> "l"
    [] c = "E" -> "e"
    [] OTHER -> c

\* The class \s of RegExp and the characters String.prototype.trim removes.
WhiteSpace == {" ", "\n", "\t", "\r"}

MinOf(S) == CHOOSE x \in S : \A y \in S : x <= y

MaxOf(S) == CHOOSE x \in S : \A y \in S : x >= y

\* pat occurs in s at position i (ci: compare case-insensitively).
MatchAt(s, i, pat, ci) ==
  /\ i >= 1
  /\ i + Len(pat) - 1 <= Len(s)
  /\ \A k \in 1..Len(pat) :
       IF ci THEN Lower(s[i + k - 1]) = Lower(pat[k]) ELSE s[i + k - 1] = pat[k]

\* Position of the first occurrence of pat in s at or after from; 0 if none.
IndexOf(s, from, pat, ci) ==
  LET S == {k \in from..Len(s) : MatchAt(s, k, pat, ci)}
  IN  IF S = {} THEN 0 ELSE MinOf(S)

Substring0None(s, n) == s

\* s.substring(0, n)
Substring0(s, n) == IF Len(s) <= n THEN s ELSE SubSeq(s, 1, n)

\* s.trim()
Trim(s) ==
  LET S == {k \in 1..Len(s) : s[k] \notin WhiteSpace}
      last[i \in 0..Len(s)] == IF i = 0 \/ s[i] \notin WhiteSpace THEN i ELSE last[i - 1]
  IN  IF S = {} THEN <<>> ELSE SubSeq(s, MinOf(S), last[Len(s)])

\* Last position of the match of  <open[^>]*>[\s\S]*?close  (flags gi) that
\* starts at i; 0 when there is no match at i.  [^>]* stops at the first '>'
\* and the lazy [\s\S]*? at the first occurrence of close after it.
BlockEnd(s, i, open, close) ==
  IF ~MatchAt(s, i, open, TRUE) THEN 0
  ELSE LET j == IndexOf(s, i + Len(open), <<">">>, FALSE)
       IN  IF j = 0 THEN 0
           ELSE LET k == IndexOf(s, j + 1, close, TRUE)
                IN  IF k = 0 THEN 0 ELSE k + Len(close) - 1

\* s.replace(/<open[^>]*>[\s\S]*?close/gi, ''): rest[i] is the result for
\* the part of s from position i on.
RemoveBlocks(s, open, close) ==
  LET rest[i \in 1..(Len(s) + 1)] ==
        LET starts == {k \in i..Len(s) : BlockEnd(s, k, open, close) # 0}
        IN  IF starts = {} THEN SubSeq(s, i, Len(s))
            ELSE SubSeq(s, i, MinOf(starts) - 1)
                   \o rest[BlockEnd(s, MinOf(starts), open, close) + 1]
  IN  rest[1]

\* Last position of the match of  <!--[\s\S]*?-->  that starts at i; 0 if none.
CommentEnd(s, i) ==
  IF ~MatchAt(s, i, <<"<", "!", "-", "-">>, FALSE) THEN 0
  ELSE LET k == IndexOf(s, i + 4, <<"-", "-", ">">>, FALSE)
       IN  IF k = 0 THEN 0 ELSE k + 2

\* s.replace(/<!--[\s\S]*?-->/g, '')
RemoveComments(s) ==
  LET rest[i \in 1..(Len(s) + 1)] ==
        LET starts == {k \in i..Len(s) : CommentEnd(s, k) # 0}
        IN  IF starts = {} THEN SubSeq(s, i, Len(s))
            ELSE SubSeq(s, i, MinOf(starts) - 1) \o rest[CommentEnd(s, MinOf(starts)) + 1]
  IN  rest[1]

\* Last position of the match of  <[^>]+>  that starts at i; 0 if none.
TagEnd(s, i) ==
  IF s[i] # "<" \/ i + 1 > Len(s) \/ s[i + 1] = ">" THEN 0
  ELSE IndexOf(s, i + 2, <<">">>, FALSE)

\* s.replace(/<[^>]+>/g, '\n')
StripTags(s) ==
  LET rest[i \in 1..(Len(s) + 1)] ==
        LET starts == {k \in i..Len(s) : TagEnd(s, k) # 0}
        IN  IF starts = {} THEN SubSeq(s, i, Len(s))
            ELSE SubSeq(s, i, MinOf(starts) - 1) \o <<"\n">>
                   \o rest[TagEnd(s, MinOf(starts)) + 1]
  IN  rest[1]

\* s.replace(pat, rep) for a literal pattern with the g flag.
ReplaceAll(s, pat, rep) ==
  LET rest[i \in 1..(Len(s) + 1)] ==
        IF IndexOf(s, i, pat, FALSE) = 0 THEN SubSeq(s, i, Len(s))
        ELSE SubSeq(s, i, IndexOf(s, i, pat, FALSE) - 1) \o rep
               \o rest[IndexOf(s, i, pat, FALSE) + Len(pat)]
  IN  rest[1]

\* Last position of the match of  \n\s*\n  that starts at i; 0 if none: the
\* greedy \s* takes the whole run of white space and backtracks to the last
\* newline in it.
BlankEnd(s, i) ==
  IF s[i] # "\n" THEN 0
  ELSE LET stop == {k \in (i + 1)..Len(s) : s[k] \notin WhiteSpace}
           last == IF stop = {} THEN Len(s) ELSE MinOf(stop) - 1
           nls  == {k \in (i + 1)..last : s[k] = "\n"}
       IN  IF nls = {} THEN 0 ELSE MaxOf(nls)

\* s.replace(/\n\s*\n/g, '\n')
CollapseBlank(s) ==
  LET rest[i \in 1..(Len(s) + 1)] ==
        LET starts == {k \in i..Len(s) : BlankEnd(s, k) # 0}
        IN  IF starts = {} THEN SubSeq(s, i, Len(s))
            ELSE SubSeq(s, i, MinOf(starts) - 1) \o <<"\n">>
                   \o rest[BlankEnd(s, MinOf(starts)) + 1]
  IN  rest[1]

(***************************************************************************)
(* extractContent                                                          *)
(***************************************************************************)

\* The placeholder title used when the page has no title element.
NoTitle == <<"N", "o", "T", "i", "t", "l", "e">>

\* The capture group of the match of  <title[^>]*>([^<]+)<\/title>  (flag i)
\* that starts at i, as <<first, last>>; <<0, 0>> when there is no match at i.
TitleAt(s, i) ==
  IF ~MatchAt(s, i, <<"<", "t", "i", "t", "l", "e">>, TRUE) THEN <<0, 0>>
  ELSE LET j == IndexOf(s, i + 6, <<">">>, FALSE)
       IN  IF j = 0 THEN <<0, 0>>
           ELSE LET m == IndexOf(s, j + 1, <<"<">>, FALSE)
                IN  IF m >= j + 2 /\ MatchAt(s, m, <<"<", "/", "t", "i", "t", "l", "e", ">">>, TRUE)
                    THEN <<j + 1, m - 1>>
                    ELSE <<0, 0>>

ExtractTitleNoTrim(html) ==
  LET S == {k \in 1..Len(html) : TitleAt(html, k)[1] # 0}
  IN  IF S = {} THEN NoTitle
      ELSE LET g == TitleAt(html, MinOf(S))
           IN  SubSeq(html, g[1], g[2])

\* html.match(/<title[^>]*>([^<]+)<\/title>/i): the first capture, trimmed,
\* or the placeholder.
ExtractTitle(html) ==
  LET S == {k \in 1..Len(html) : TitleAt(html, k)[1] # 0}
  IN  IF S = {} THEN NoTitle
      ELSE LET g == TitleAt(html, MinOf(S))
           IN  Trim(SubSeq(html, g[1], g[2]))

TextLimit == 5000

Tag(name) == <<"<">> \o name

EndTag(name) == <<"<", "/">> \o name \o <<">">>

StripBlock(s, name) == RemoveBlocks(s, Tag(name), EndTag(name))

\* The only element of a one-element set.
The(S) == CHOOSE x \in S : TRUE

\* The chain of replace calls; each result is bound before the next call.
extractContent(html) ==
  LET b1 == {StripBlock(x, <<"s", "c", "r", "i", "p", "t">>) : x \in {html}}
      b2 == {StripBlock(x, <<"s", "t", "y", "l", "e">>) : x \in b1}
      b3 == {RemoveComments(x) : x \in b2}
      b4 == {StripBlock(x, <<"n", "a", "v">>) : x \in b3}
      b5 == {StripBlock(x, <<"h", "e", "a", "d", "e", "r">>) : x \in b4}
      b6 == {StripBlock(x, <<"f", "o", "o", "t", "e", "r">>) : x \in b5}
      b7 == {StripBlock(x, <<"i", "f", "r", "a", "m", "e">>) : x \in b6}
      body == {StripBlock(x, <<"s", "v", "g">>) : x \in b7}
      t1 == {StripTags(x) : x \in body}
      t2 == {ReplaceAll(x, <<"\t">>, <<" ">>) : x \in t1}
      t3 == {ReplaceAll(x, <<"&", "n", "b", "s", "p", ";">>, <<" ">>) : x \in t2}
      t4 == {CollapseBlank(x) : x \in t3}
      text == {Trim(x) : x \in t4}
  IN  The({[title |-> ExtractTitle(html), text |-> Substring0(x, TextLimit)] : x \in text})

(***************************************************************************)
(* JavaScript values, errors and JSON                                      *)
(***************************************************************************)

\* The JavaScript value undefined (an absent environment variable, an absent
\* request body or property).
Undefined == "undefined"

\* A JavaScript value held by pendingList: an array with its elements, or a
\* value of another type (an object literal stands for the non-iterables).
JSArray(elems) == [type |-> "array", elems |-> elems]

JSObject == [type |-> "object", elems |-> <<>>]

\* Whether [...v] succeeds; spreading a plain object throws a TypeError.
Iterable(v) == v.type = "array"

Err(name, message) == [name |-> name, message |-> message]

\* The content of a stored document: JSON text, or text that is not JSON.
JSONstringify(v) == [kind |-> "json", value |-> v]

Garbage == [kind |-> "garbage", value |-> JSArray(<<>>)]

\* The store has no object named pending.json.
Missing == [kind |-> "missing", value |-> JSArray(<<>>)]

\* Whether JSON.parse(content) / Response.json() throws a SyntaxError.
ParseThrows(content) == content.kind # "json"

\* A read step that drops what it parsed.
JSONparseEmpty(content) == JSArray(<<>>)

\* JSON.parse(content) / Response.json() of content that parses.
JSONparse(content) == content.value

(***************************************************************************)
(* Bounds and inputs of the model                                          *)
(***************************************************************************)

\* Concurrent invocations of the handler.
Reqs == {"r1", "r2"}

\* The clock counts half days from 0 to MaxClock.
MaxClock == 2

\* new Date().toISOString().split('T')[0]: the UTC day of an instant.
DateOf(t) == t \div 2

Methods == {"OPTIONS", "GET", "POST"}

Urls == {"https://News.example/a", "https://auto.test/b"}

\* new URL(url).hostname: the host, lower-cased.
Hostname(url) ==
  CASE url = "https://News.example/a" -> "news.example"
    [] url = "https://auto.test/b" -> "auto.test"
    [] OTHER -> Undefined

\* req.body: undefined (no parsed body), or an object whose url property is
\* undefined, empty or a URL.
Bodies ==
  {[defined |-> FALSE, url |-> Undefined]}
    \cup {[defined |-> TRUE, url |-> u] : u \in {Undefined, ""} \cup Urls}

\* process.env.BLOB_READ_WRITE_TOKEN
Tokens == {Undefined, "", "vercel_blob_rw_token"}

\* Values of Math.random().toString(36).substring(2, 10)
RandomIds == {"k3x9q2ab", "z81mfp0c"}

\* HTTP statuses a server answers with.
Statuses == {200, 404}

\* response.ok
IsOk(status) == status >= 200 /\ status <= 299

\* The character c repeated n times.
Rep(c, n) == [k \in 1..n |-> c]

MinTextLen == 50

\* A page whose text has exactly MinTextLen characters.
PageArticle ==
  <<"<", "t", "i", "t", "l", "e", ">", " ", "E", "V", " ", "<", "/", "t", "i", "t", "l", "e", ">">>
    \o <<"<", "s", "c", "r", "i", "p", "t", ">", "v", "a", "r", "<", "/", "s", "c", "r", "i", "p", "t", ">">>
    \o <<"<", "p", ">">> \o Rep("a", MinTextLen - 4) \o <<"<", "/", "p", ">">>

\* A page whose text has MinTextLen - 1 characters.
PageShort == <<"<", "p", ">">> \o Rep("b", MinTextLen - 1) \o <<"<", "/", "p", ">">>

Pages == {PageArticle, PageShort}

\* A page whose text has TextLimit + 1 characters.
PageLong == <<"<", "p", ">">> \o Rep("d", TextLimit + 1) \o <<"<", "/", "p", ">">>

LongPages == {PageLong, PageArticle}

\* An item stored by an earlier ingestion.
OldItem ==
  [id |-> "a0b1c2d3", url |-> "https://auto.test/b", title |-> NoTitle,
   text |-> Rep("c", MinTextLen), scrapedAt |-> 0, source |-> "auto.test"]

\* Contents of pending.json the handler may find when it starts.
InitialDocs ==
  {Missing, Garbage, JSONstringify(JSObject),
   JSONstringify(JSArray(<<>>)), JSONstringify(JSArray(<<OldItem>>))}

\* extractContent(html) of every page, computed once.
extractedPages == {<<html, extractContent(html)>> : html \in Pages \cup LongPages}

extracted ==
  [html \in Pages \cup LongPages |->
     The({p[2] : p \in {q \in extractedPages : q[1] = html}})]

(***************************************************************************)
(* Inputs of extractContent                                                *)
(***************************************************************************)

\* Contents X of a title element: empty, blank, plain, padded, and with a
\* "<" character.
TitleTexts ==
  {<<>>, <<" ">>, <<"T">>, <<" ", "T", "i", " ">>, <<"T", "<", "b">>, <<"<">>}

TitleElement(x) ==
  <<"<", "t", "i", "t", "l", "e", ">">> \o x \o <<"<", "/", "t", "i", "t", "l", "e", ">">>

ScriptOpen == <<"<", "s", "c", "r", "i", "p", "t", ">">>

ScriptClose == <<"<", "/", "s", "c", "r", "i", "p", "t", ">">>

StyleOpen == <<"<", "s", "t", "y", "l", "e", ">">>

StyleClose == <<"<", "/", "s", "t", "y", "l", "e", ">">>

\* Page bodies in which the character Z occurs only inside a script or
\* style block: none; plain blocks; an opening tag in capitals with an
\* attribute; a closing tag with white space, and with an attribute; a
\* block nested in a block; two blocks that overlap; a block whose removal
\* joins the characters around it into a new block.
BlockBodies ==
  { <<"<", "p", ">", "o", "k", "<", "/", "p", ">">>,
    <<"a">> \o ScriptOpen \o <<"Z">> \o ScriptClose \o <<"b">>,
    <<"a">> \o StyleOpen \o <<"Z", " ", "Z">> \o StyleClose \o <<"b">>,
    <<"<", "S", "C", "R", "I", "P", "T", " ", "x", ">", "Z",
      "<", "/", "S", "C", "R", "I", "P", "T", ">", "b">>,
    ScriptOpen \o <<"Z", "<", "/", "s", "c", "r", "i", "p", "t", " ", ">", "b">>,
    StyleOpen \o <<"Z", "<", "/", "s", "t", "y", "l", "e", " ", "x", ">", "b">>,
    ScriptOpen \o ScriptOpen \o <<"Z">> \o ScriptClose \o <<"Z">> \o ScriptClose,
    ScriptOpen \o StyleOpen \o <<"Z">> \o ScriptClose \o <<"Z">> \o StyleClose,
    <<"<", "s", "c", "r">> \o ScriptOpen \o <<"Z">> \o ScriptClose
      \o <<"i", "p", "t", ">", "Z">> \o ScriptClose }

\* The inputs: a body, alone or behind a title element.
ExtractInputs ==
  {[hasTitle |-> FALSE, X |-> <<>>, body |-> b] : b \in BlockBodies}
    \cup {[hasTitle |-> TRUE, X |-> x, body |-> b] : x \in TitleTexts, b \in BlockBodies}

\* The html text of an input.
Html(in) == (IF in.hasTitle THEN TitleElement(in.X) ELSE <<>>) \o in.body

(***************************************************************************)
(* The dashboard's brand share                                             *)
(***************************************************************************)

DEFAULT_BRANDS ==
  <<"Toyota", "Nissan", "Ford", "BMW", "Mercedes",
    "Changan", "BYD", "Geely", "Jetour", "Tesla", "MG">>

\* The values of NewsType, in the order of the enumeration.
NEWS_TYPES_LIST == <<"launch", "policy", "sales", "personnel", "competitor", "other">>

NewsTypes == {NEWS_TYPES_LIST[i] : i \in 1..Len(NEWS_TYPES_LIST)}

Range(seq) == {seq[i] : i \in 1..Len(seq)}

\* { name, total: 0 } with every type at 0.  The node of 'Other' that
\* part_000 creates has no type keys; every read of a type key is followed
\* by || 0, which makes the absent key and 0 alike.
Node(name) == [name |-> name, total |-> 0, byType |-> [t \in NewsTypes |-> 0]]

\* brandMap[name] is set.  brandMap is held as the sequence of its values
\* in insertion order, the order of Object.values.
HasNode(brandMap, name) == \E i \in 1..Len(brandMap) : brandMap[i].name = name

\* brandMap[name][type] = (brandMap[name][type] || 0) + 1; brandMap[name].total += 1
Bump(brandMap, name, type) ==
  [i \in 1..Len(brandMap) |->
     IF brandMap[i].name = name
       THEN [brandMap[i] EXCEPT !.total = @ + 1, !.byType[type] = @ + 1]
       ELSE brandMap[i]]

\* The body of news.forEach in part_000: a brand without a node is
\* counted in the node of 'Other', created when absent.
CountAllowed(brandMap, n) ==
  IF HasNode(brandMap, n.brand) THEN Bump(brandMap, n.brand, n.type)
  ELSE IF HasNode(brandMap, "Other") THEN Bump(brandMap, "Other", n.type)
  ELSE Bump(Append(brandMap, Node("Other")), "Other", n.type)

\* The body of news.forEach in EntryForm.tsx: every brand gets a node of
\* its own; n.brand || 'Other' names the node of an empty brand.
CountRaw(brandMap, n) ==
  LET b == IF n.brand = "" THEN "Other" ELSE n.brand
  IN  IF HasNode(brandMap, b) THEN Bump(brandMap, b, n.type)
      ELSE Bump(Append(brandMap, Node(b)), b, n.type)

\* brandMap after news.forEach, from record i on (part_000).
RECURSIVE ForEachAllowed(_, _, _)
ForEachAllowed(brandMap, ns, i) ==
  IF i > Len(ns) THEN brandMap
  ELSE The({ForEachAllowed(m, ns, i + 1) : m \in {CountAllowed(brandMap, ns[i])}})

\* brandMap after news.forEach, from record i on (EntryForm.tsx).
RECURSIVE ForEachRaw(_, _, _)
ForEachRaw(brandMap, ns, i) ==
  IF i > Len(ns) THEN brandMap
  ELSE The({ForEachRaw(m, ns, i + 1) : m \in {CountRaw(brandMap, ns[i])}})

\* a.total, or a[shareMetric] || 0
Metric(node, metric) == IF metric = "total" THEN node.total ELSE node.byType[metric]

\* node put behind the nodes of sorted whose metric is not smaller.
InsertDesc(sorted, node, metric) ==
  LET k == Cardinality({j \in 1..Len(sorted) : Metric(sorted[j], metric) >= Metric(node, metric)})
  IN  SubSeq(sorted, 1, k) \o <<node>> \o SubSeq(sorted, k + 1, Len(sorted))

\* .sort((a, b) => valB - valA): descending by the metric, stable.
RECURSIVE SortDesc(_, _, _, _)
SortDesc(sorted, nodes, i, metric) ==
  IF i > Len(nodes) THEN sorted
  ELSE The({SortDesc(x, nodes, i + 1, metric) : x \in {InsertDesc(sorted, nodes[i], metric)}})

TopTen == 10

TopSeven == 7

\* .slice(0, n)
Slice0(seq, n) == IF Len(seq) <= n THEN seq ELSE SubSeq(seq, 1, n)

\* .slice(n)
SliceFrom(seq, n) == IF Len(seq) <= n THEN <<>> ELSE SubSeq(seq, n + 1, Len(seq))

\* brandMap of part_000 before the sort: a node for every available brand,
\* then the counts.
BrandMapAllowed(ns, brands) ==
  The({ForEachAllowed(m, ns, 1) : m \in {[i \in 1..Len(brands) |-> Node(brands[i])]}})

\* brandMap of EntryForm.tsx before the sort.
BrandMapRaw(ns) == ForEachRaw(<<>>, ns, 1)

\* brandShareData of part_000: the ten nodes with the largest metric.
brandShareData(brandMap, metric) ==
  The({Slice0(x, TopTen) : x \in {SortDesc(<<>>, brandMap, 1, metric)}})

\* others.forEach: the sums of the nodes behind the seventh.
RECURSIVE SumNodes(_, _, _)
SumNodes(acc, others, i) ==
  IF i > Len(others) THEN acc
  ELSE The({SumNodes(a, others, i + 1) :
              a \in {[acc EXCEPT !.total = @ + others[i].total,
                                 !.byType = [t \in NewsTypes |-> @[t] + others[i].byType[t]]]}})

\* brandShareData of EntryForm.tsx: the seven nodes with the largest
\* metric, and a node 'Others' with the sums of the rest when there is a rest.
brandShareDataTop7(brandMap, metric) ==
  The({ IF SliceFrom(x, TopSeven) = <<>> THEN x
        ELSE Append(Slice0(x, TopSeven), SumNodes(Node("Others"), SliceFrom(x, TopSeven), 1)) :
        x \in {SortDesc(<<>>, brandMap, 1, metric)} })

\* Brands and types of the records of the inputs: an available brand, a
\* brand that is not available, the literal 'Other', and no brand.
InputBrands == {"BYD", "Xiaomi", "Other", ""}

InputTypes == {"launch", "sales"}

InputRecords == [brand : InputBrands, type : InputTypes]

MaxNews == 2

\* Nine records of nine brands, one of them not available.
WideNews ==
  [i \in 1..9 |->
     [brand |-> IF i <= 8 THEN DEFAULT_BRANDS[i] ELSE "Xiaomi",
      type |-> IF i % 2 = 0 THEN "launch" ELSE "sales"]]

NewsInputs ==
  {WideNews} \cup UNION {[1..k -> InputRecords] : k \in 0..MaxNews}

BrandsInputs == {DEFAULT_BRANDS, <<"BYD", "Other">>, <<>>}

MetricInputs == {"total", "launch"}

(***************************************************************************)
(* The entry form                                                          *)
(***************************************************************************)

\* The item of the queue the form lists: a PendingItem as /api/pending
\* returns it.
PendingA ==
  [id |-> "a0b1c2d3", title |-> NoTitle,
   url |-> <<"h", "t", "t", "p", "s", ":", "/", "/", "a", "u", "t", "o", ".", "t", "e", "s", "t", "/", "b">>,
   text |-> Rep("c", MinTextLen), source |-> "auto.test", scrapedAt |-> 0]

\* An item whose url was submitted with a blank in front (fetch and
\* new URL() strip it, the handler stores the url as submitted).
PendingB ==
  [id |-> "e4f5a6b7", title |-> NoTitle,
   url |-> <<" ">> \o PendingA.url,
   text |-> Rep("c", MinTextLen), source |-> "auto.test", scrapedAt |-> 0]

PendingInputs == {PendingA, PendingB}

\* What the user types into the text area of the AI tab.
TypedTexts == {<<>>, <<" ">>}

\* What the user types into an image URL field: nothing, a blank, a URL
\* with blanks around it.
TypedImages ==
  {<<>>, <<" ">>, <<" ">> \o <<"h", "t", "t", "p", "s", ":", "/", "/", "i", ".", "t", "e", "s", "t", "/", "a", ".", "p", "n", "g">> \o <<" ">>}

\* Values of Math.floor(Math.random() * 1000), as digits.
Seeds == {<<"0">>, <<"9", "9", "9">>}

\* encodeURIComponent of one character.
EncodeChar(c) ==
  IF c = " " THEN <<"%", "2", "0">>
  ELSE IF c = ":" THEN <<"%", "3", "A">>
  ELSE IF c = "/" THEN <<"%", "2", "F">>
  ELSE <<c>>

encodeURIComponent(str) ==
  LET enc[i \in 0..Len(str)] == IF i = 0 THEN <<>> ELSE enc[i - 1] \o EncodeChar(str[i])
  IN  enc[Len(str)]

ImagePrefix ==
  <<"h", "t", "t", "p", "s", ":", "/", "/", "i", "m", "a", "g", "e", ".", "p", "o", "l", "l", "i", "n", "a", "t", "i", "o", "n", "s", ".", "a", "i", "/", "p", "r", "o", "m", "p", "t", "/">>

ImageSuffix ==
  <<"?", "w", "i", "d", "t", "h", "=", "8", "0", "0", "&", "h", "e", "i", "g", "h", "t", "=", "6", "0", "0", "&", "n", "o", "l", "o", "g", "o", "=", "t", "r", "u", "e", "&", "s", "e", "e", "d", "=">>

generateImageUrl(prompt, seed) ==
  ImagePrefix \o encodeURIComponent(prompt) \o ImageSuffix \o seed

FinalImageAsTyped(input, prompt, seed) == input

\* The image generated whatever the input.
FinalImageGenerated(input, prompt, seed) == generateImageUrl(prompt, seed)

\* input.trim() || generateImageUrl(prompt) in handleManualSubmit, and
\* input.trim() ? input.trim() : generateImageUrl(prompt) in handleAiAnalyze.
FinalImage(input, prompt, seed) ==
  IF Trim(input) # <<>> THEN Trim(input) ELSE generateImageUrl(prompt, seed)

\* The form data of the manual tab, with the title and image typed.
FormData(title, image) ==
  [title |-> title, summary |-> <<>>, brand |-> <<"B", "Y", "D">>, type |-> "other",
   date |-> 0, url |-> <<>>, source |-> "manual entry", image |-> image]

\* What analyzeTextWithQwen resolves to: a candidate record, none of whose
\* fields the service is known to have validated.
AnalyzerResults ==
  { [title |-> <<"E", "V">>, summary |-> <<"s">>, brand |-> <<"B", "Y", "D">>,
     type |-> "launch", date |-> 0,
     url |-> <<"h", "t", "t", "p", "s", ":", "/", "/", "b", "y", "d", ".", "t", "e", "s", "t", "/", "e", "v">>,
     image_keywords |-> <<"e", "v">>],
    [title |-> <<"E", "V">>, summary |-> <<"s">>, brand |-> <<"X", "i">>,
     type |-> "recall", date |-> 0, url |-> <<>>, image_keywords |-> <<>>] }

\* The message of the error analyzeTextWithQwen rejects with; the last is
\* an error without a message.
AnalyzerErrors ==
  { <<"n", "o", " ", "A", "P", "I", " ", "K", "e", "y">>,
    <<"H", "T", "T", "P", " ", "4", "0", "1">>,
    <<"4", "0", "3", ":", " ", "b", "a", "d", " ", "J", "S", "O", "N">>,
    <<"b", "a", "d", " ", "J", "S", "O", "N">>,
    <<"J", "S", "O", "N", " ", "h", "a", "s", " ", "n", "o", " ", "A", "P", "I", " ", "K", "e", "y">>,
    <<"t", "i", "m", "e", "d", " ", "o", "u", "t">>,
    <<>> }

\* msg.includes(pat)
Includes(msg, pat) == IndexOf(msg, 1, pat, FALSE) # 0

\* A message shown to the user: a fixed text, and the text put behind it.
Message(fixed, embedded) == [fixed |-> fixed, embedded |-> embedded]

MsgAuth == Message("API key error: check the VITE_DASHSCOPE_API_KEY setting", <<>>)

MsgShape == Message("the AI answer could not be parsed, retry", <<>>)

MsgGeneric(msg) == Message("analysis failed: ", msg)

MsgUnknown == <<"u", "n", "k", "n", "o", "w", "n", " ", "e", "r", "r", "o", "r">>

AnalysisErrorShapeFirst(message) ==
  LET msg == IF message = <<>> THEN MsgUnknown ELSE message
  IN  IF Includes(msg, <<"J", "S", "O", "N">>) THEN MsgShape
      ELSE IF \/ Includes(msg, <<"A", "P", "I", " ", "K", "e", "y">>)
              \/ Includes(msg, <<"4", "0", "1">>)
              \/ Includes(msg, <<"4", "0", "3">>)
        THEN MsgAuth
      ELSE MsgGeneric(msg)

\* The catch of handleAiAnalyze: the message set for an error with this
\* message, after err.message || "unknown error".
AnalysisError(message) ==
  LET msg == IF message = <<>> THEN MsgUnknown ELSE message
  IN  IF \/ Includes(msg, <<"A", "P", "I", " ", "K", "e", "y">>)
         \/ Includes(msg, <<"4", "0", "1">>)
         \/ Includes(msg, <<"4", "0", "3">>)
        THEN MsgAuth
      ELSE IF Includes(msg, <<"J", "S", "O", "N">>) THEN MsgShape
      ELSE MsgGeneric(msg)

MaxLists == 2

(***************************************************************************)
(* The handler's decisions                                                 *)
(***************************************************************************)

MsgNoToken == "blob token not configured"

MsgNoUrl == "url must not be empty"

MsgTimeout == "fetch timed out (15s)"

MsgNoContent == "no usable content extracted"

MsgStatus(status) == "fetch failed: target answered " \o ToString(status)

\* The credential check testing for undefined only.
TokenUndefined(tok) == tok = Undefined

\* if (!token)
TokenMissing(tok) == tok = Undefined \/ tok = ""

\* if (!url)
UrlMissing(url) == url = Undefined \/ url = ""

\* The handler without the check of response.ok.
StatusIgnored(ok) == FALSE

\* if (!response.ok) throw
StatusRejected(ok) == ~ok

\* The length check off by one.
TooShortOffByOne(text) == Len(text) < MinTextLen - 1

\* if (text.length < 50)
TooShort(text) == Len(text) < MinTextLen

\* The inner catch without the test of the error name.
CatchFetchErrorRethrow(fetchError) == fetchError

\* The inner catch: an AbortError becomes the timeout error, any other
\* error is thrown on unchanged.
CatchFetchError(fetchError) ==
  IF fetchError.name = "AbortError" THEN Err("Error", MsgTimeout) ELSE fetchError

\* A handler that leaves the timer alone.
ClearTimeoutSkipped(t) == t

\* clearTimeout(timeoutId): cancels a timer that has not fired yet.
ClearTimeout(t) == IF t = "armed" THEN "cleared" ELSE t

\* The item the handler builds after the read step.
NewItem(id, url, title, text, now) ==
  [id |-> id, url |-> url, title |-> title, text |-> text,
   scrapedAt |-> DateOf(now), source |-> Hostname(url)]

\* The list written without the new item.
PrependMissing(newItem, elems) == elems

\* The new item put behind the list read.
PrependBehind(newItem, elems) == elems \o <<newItem>>

\* pendingList = [newItem, ...pendingList]
Prepend(newItem, elems) == <<newItem>> \o elems

\* A put without addOverwrite: an existing pending.json is not replaced.
OverwriteRefused(current, body) == IF current = Missing THEN body ELSE current

\* put('pending.json', body, {addRandomSuffix: false, addOverwrite: true}):
\* the stored content after the store applied the put to content current.
Overwrite(current, body) == body

\* list({token, limit: 100})
ListLimit == 100

\* blobs.find(b => b.pathname === 'pending.json') over the blobs of one
\* listing: whether pending.json can be found, for a store holding content
\* as pending.json and n other objects.  A store with more objects than the
\* limit lists a part of them, which holds pending.json or not.
Listed(content, n) ==
  IF content = Missing THEN {FALSE}
  ELSE IF n + 1 <= ListLimit THEN {TRUE}
  ELSE {TRUE, FALSE}

\* A response: status, the error property of its JSON body (Undefined when
\* there is none), and the item property as a sequence of at most one item.
Response(status, error, item) == [status |-> status, error |-> error, item |-> item]

NoResponse == Response(0, Undefined, <<>>)

NoLocals ==
  [url |-> Undefined, html |-> <<>>, title |-> <<>>, text |-> <<>>,
   pendingList |-> JSArray(<<>>), newItem |-> <<>>, putBody |-> Missing]

(***************************************************************************)
(* State                                                                   *)
(***************************************************************************)

VARIABLES
  token,      \* the environment variable BLOB_READ_WRITE_TOKEN
  web,        \* the pages the targets of the page fetch serve
  otherBlobs,     \* the number of objects in the store besides pending.json
  clock,      \* the wall clock
  doc,        \* the content of pending.json in the object store
  pc,         \* per request: the await the handler is suspended at
  req,        \* per request: method and body
  timer,      \* per request: the deadline timer (none, armed, cleared, fired)
  locals,     \* per request: the handler's local variables
  resp,       \* per request: the response sent
  calls,      \* history, per request: the outbound calls issued
  failed,     \* history, per request: the steps that failed
  docAtStart, \* history, per request: doc when the request arrived
  othersWrote, \* history, per request: another request's put was applied since it arrived
  overlap,    \* history: some request arrived while another was in progress
  writes,     \* history: the requests whose put was applied, in order
  ingested,   \* history: the items of the requests answered 200, in order
  initialDoc, \* history: doc in the initial state
  htmlInput,  \* extractContent alone: the input the html argument is built from
  extractResult, \* extractContent alone: the value returned, once it returned
  news,       \* dashboard: the news prop
  availableBrands, \* dashboard: the availableBrands prop
  shareMetric, \* dashboard: the metric selected
  share,      \* dashboard: brandMap before the sort and brandShareData, once computed
  activeTab,  \* form: the tab shown
  isProcessing, \* form: an analysis is running
  error,      \* form: the message shown, if any
  spiderUrl,  \* form: the url typed into the spider tab
  isSpidering, \* form: an ingestion is running
  pendingItems, \* form: the items listed in the spider tab
  formData,   \* form: the fields of the manual tab
  aiText,     \* form: the text area of the AI tab
  aiImageInput, \* form: the image field of the AI tab
  lists,      \* form: the list requests issued by fetchPendingItems, in order
  deletes,    \* form: the ids of the DELETE requests outstanding
  analysis,   \* form: the analyzeTextWithQwen call outstanding, with the state its caller captured
  added,      \* history: the last call of onAdd
  failure,    \* history: the message of the error the last analysis failed with, until the next analysis
  queue,      \* inbox: the queue /api/pending serves
  ingests,    \* inbox: the POST /api/spider requests issued by handleSpiderSubmit, in order
  stale       \* history: the list requests in flight since handleDeletePending removed an id, with the id

vars ==
  <<token, web, otherBlobs, clock, doc, pc, req, timer, locals, resp, calls, failed,
    docAtStart, othersWrote, overlap, writes, ingested, initialDoc,
    htmlInput, extractResult, news, availableBrands, shareMetric, share,
    activeTab, isProcessing, error, spiderUrl, isSpidering, pendingItems, formData,
    aiText, aiImageInput, lists, deletes, analysis, added, failure, queue, ingests, stale>>

\* The state of the handler's requests.
handlerVars ==
  <<token, web, otherBlobs, clock, doc, pc, req, timer, locals, resp, calls, failed,
    docAtStart, othersWrote, overlap, writes, ingested, initialDoc>>

extractVars == <<htmlInput, extractResult>>

dashVars == <<news, availableBrands, shareMetric, share>>

formVars ==
  <<activeTab, isProcessing, error, spiderUrl, isSpidering, pendingItems, formData,
    aiText, aiImageInput, lists, deletes, analysis, added, failure, queue, ingests, stale>>

\* The state outside the handler.
client == <<extractVars, dashVars, formVars>>

\* extractContent is not being studied alone.
NoExtract ==
  /\ htmlInput = [hasTitle |-> FALSE, X |-> <<>>, body |-> <<>>]
  /\ extractResult = <<>>

\* No dashboard is rendered.
NoDashboard ==
  /\ news = <<>>
  /\ availableBrands = <<>>
  /\ shareMetric = "total"
  /\ share = <<>>

\* No form is mounted.
NoForm ==
  /\ activeTab = "spider"
  /\ isProcessing = FALSE
  /\ error = <<>>
  /\ spiderUrl = ""
  /\ isSpidering = FALSE
  /\ pendingItems = <<>>
  /\ formData = FormData(<<>>, <<>>)
  /\ aiText = <<>>
  /\ aiImageInput = <<>>
  /\ lists = <<>>
  /\ deletes = {}
  /\ analysis = <<>>
  /\ added = <<>>
  /\ failure = <<>>
  /\ queue = <<>>
  /\ ingests = <<>>
  /\ stale = {}

hist == <<docAtStart, othersWrote, overlap, writes, ingested, initialDoc>>

Init ==
  /\ token \in Tokens
  /\ web = Pages
  /\ otherBlobs = 0
  /\ clock = 0
  /\ doc \in InitialDocs
  /\ pc = [r \in Reqs |-> "idle"]
  /\ req = [r \in Reqs |-> [method |-> "OPTIONS", body |-> [defined |-> FALSE, url |-> Undefined]]]
  /\ timer = [r \in Reqs |-> "none"]
  /\ locals = [r \in Reqs |-> NoLocals]
  /\ resp = [r \in Reqs |-> NoResponse]
  /\ calls = [r \in Reqs |-> {}]
  /\ failed = [r \in Reqs |-> {}]
  /\ docAtStart = [r \in Reqs |-> Missing]
  /\ othersWrote = [r \in Reqs |-> FALSE]
  /\ overlap = FALSE
  /\ writes = <<>>
  /\ ingested = <<>>
  /\ initialDoc = doc
  /\ NoExtract
  /\ NoDashboard
  /\ NoForm

InProgress(r) == pc[r] \notin {"idle", "done"}

(***************************************************************************)
(* Steps of the handler                                                    *)
(***************************************************************************)

\* res.status(status).json({error}) or .end(): the handler returns.
Respond(r, status, message) ==
  /\ pc' = [pc EXCEPT ![r] = "done"]
  /\ resp' = [resp EXCEPT ![r] = Response(status, message, <<>>)]

\* An error thrown inside the inner try block: the inner catch clears the
\* timer and rethrows, the outer catch answers 500 with the message.
Throw(r, fetchError, tm) ==
  /\ timer' = [timer EXCEPT ![r] = ClearTimeout(tm)]
  /\ Respond(r, 500, CatchFetchError(fetchError).message)

\* The request arrives; the handler runs up to its first await: the method,
\* credential and url checks, then the timer is armed and the page fetch
\* is issued.
Receive(r, method, body) ==
  /\ pc[r] = "idle"
  /\ req' = [req EXCEPT ![r] = [method |-> method, body |-> body]]
  /\ docAtStart' = [docAtStart EXCEPT ![r] = doc]
  /\ UNCHANGED <<client, token, web, otherBlobs, clock, doc, failed, othersWrote, writes, ingested, initialDoc>>
  /\ IF method = "OPTIONS"
       THEN Respond(r, 200, Undefined) /\ UNCHANGED <<timer, locals, calls, overlap>>
     ELSE IF TokenMissing(token)
       THEN Respond(r, 503, MsgNoToken) /\ UNCHANGED <<timer, locals, calls, overlap>>
     ELSE IF method # "POST"
       THEN Respond(r, 405, Undefined) /\ UNCHANGED <<timer, locals, calls, overlap>>
     ELSE IF ~body.defined
       THEN Respond(r, 500, "cannot destructure property url of undefined")
            /\ UNCHANGED <<timer, locals, calls, overlap>>
     ELSE IF UrlMissing(body.url)
       THEN Respond(r, 400, MsgNoUrl) /\ UNCHANGED <<timer, locals, calls, overlap>>
     ELSE /\ timer' = [timer EXCEPT ![r] = "armed"]
          /\ locals' = [locals EXCEPT ![r].url = body.url]
          /\ calls' = [calls EXCEPT ![r] = {"page"}]
          /\ pc' = [pc EXCEPT ![r] = "fetch"]
          /\ overlap' = (overlap \/ \E o \in Reqs \ {r} : InProgress(o))
          /\ UNCHANGED resp

\* The target answers the page request with status code status: the timer
\* is cleared; a non-success status is thrown as an error, otherwise the
\* handler awaits the body.
FetchResponds(r, status) ==
  /\ pc[r] = "fetch"
  /\ failed' = [failed EXCEPT ![r] = IF IsOk(status) THEN @ ELSE @ \cup {"status"}]
  /\ IF StatusRejected(IsOk(status))
       THEN Throw(r, Err("Error", MsgStatus(status)), ClearTimeout(timer[r]))
       ELSE /\ timer' = [timer EXCEPT ![r] = ClearTimeout(timer[r])]
            /\ pc' = [pc EXCEPT ![r] = "text"]
            /\ UNCHANGED resp
  /\ UNCHANGED <<client, token, web, otherBlobs, clock, doc, req, locals, calls, hist>>

\* The page request fails (DNS, connection refused or reset).
FetchFails(r) ==
  /\ pc[r] = "fetch"
  /\ Throw(r, Err("TypeError", "fetch failed"), timer[r])
  /\ failed' = [failed EXCEPT ![r] = @ \cup {"network"}]
  /\ UNCHANGED <<client, token, web, otherBlobs, clock, doc, req, locals, calls, hist>>

\* The deadline timer fires: controller.abort().  A page request that is
\* outstanding, or a body that is being read, rejects with an AbortError;
\* the signal is passed to no other call.
TimerFires(r) ==
  /\ timer[r] = "armed"
  /\ IF pc[r] \in {"fetch", "text"}
       THEN /\ Throw(r, Err("AbortError", "This operation was aborted"), "fired")
            /\ failed' = [failed EXCEPT ![r] = @ \cup {"timeout"}]
       ELSE /\ timer' = [timer EXCEPT ![r] = "fired"]
            /\ UNCHANGED <<pc, resp, failed>>
  /\ UNCHANGED <<client, token, web, otherBlobs, clock, doc, req, locals, calls, hist>>

\* The body of the page arrives: extractContent, the length check, and
\* the listing of the store is issued.
BodyArrives(r, html) ==
  /\ pc[r] = "text"
  /\ \E content \in {extracted[html]} :
       /\ locals' = [locals EXCEPT ![r].title = content.title, ![r].text = content.text,
                                   ![r].html = <<html>>]
       /\ IF TooShort(content.text)
            THEN /\ Throw(r, Err("Error", MsgNoContent), timer[r])
                 /\ failed' = [failed EXCEPT ![r] = @ \cup {"extract"}]
                 /\ UNCHANGED calls
            ELSE /\ pc' = [pc EXCEPT ![r] = "list"]
                 /\ calls' = [calls EXCEPT ![r] = @ \cup {"list"}]
                 /\ UNCHANGED <<timer, resp, failed>>
  /\ UNCHANGED <<client, token, web, otherBlobs, clock, doc, req, hist>>

\* Reading the body fails (the connection drops during the download).
BodyFails(r) ==
  /\ pc[r] = "text"
  /\ Throw(r, Err("TypeError", "terminated"), timer[r])
  /\ failed' = [failed EXCEPT ![r] = @ \cup {"network"}]
  /\ UNCHANGED <<client, token, web, otherBlobs, clock, doc, req, locals, calls, hist>>

\* The end of the read step, with pendingList = list: the handler builds
\* newItem, spreads pendingList behind it (a TypeError when it is not
\* iterable) and issues the put of the serialized list.
BuildAndPut(r, list, id) ==
  LET l == locals[r]
      newItem == NewItem(id, l.url, l.title, l.text, clock)
  IN  IF Iterable(list)
        THEN LET newList == JSArray(Prepend(newItem, list.elems)) IN
             /\ locals' = [locals EXCEPT ![r].pendingList = newList,
                                         ![r].newItem = <<newItem>>,
                                         ![r].putBody = JSONstringify(newList)]
             /\ calls' = [calls EXCEPT ![r] = @ \cup {"put"}]
             /\ pc' = [pc EXCEPT ![r] = "put"]
             /\ UNCHANGED <<timer, resp>>
        ELSE /\ locals' = [locals EXCEPT ![r].pendingList = list,
                                         ![r].newItem = <<newItem>>]
             /\ Throw(r, Err("TypeError", "pendingList is not iterable"), timer[r])
             /\ UNCHANGED calls

\* list({token, limit: 100}) answers with at most ListLimit blobs; found
\* tells whether pending.json is among them.  When it is, its content is
\* requested, otherwise the read step ends with [].
ListReturns(r, found) ==
  /\ pc[r] = "list"
  /\ found \in Listed(doc, otherBlobs)
  /\ IF found
       THEN /\ pc' = [pc EXCEPT ![r] = "get"]
            /\ calls' = [calls EXCEPT ![r] = @ \cup {"get"}]
            /\ UNCHANGED <<timer, locals, resp>>
       ELSE \E id \in RandomIds : BuildAndPut(r, locals[r].pendingList, id)
  /\ UNCHANGED <<client, token, web, otherBlobs, clock, doc, req, failed, hist>>

\* list() throws: the catch of the read step logs it; pendingList stays [].
ListFails(r) ==
  /\ pc[r] = "list"
  /\ failed' = [failed EXCEPT ![r] = @ \cup {"list"}]
  /\ \E id \in RandomIds : BuildAndPut(r, locals[r].pendingList, id)
  /\ UNCHANGED <<client, token, web, otherBlobs, clock, doc, req, hist>>

\* The request for the content of pending.json is answered with status code
\* status and the current content.  A non-success status leaves pendingList
\* [], as does content that oldRes.json() cannot parse; otherwise
\* pendingList is the parsed value.
GetResponds(r, status) ==
  /\ pc[r] = "get"
  /\ IF ~IsOk(status)
       THEN /\ failed' = [failed EXCEPT ![r] = @ \cup {"get"}]
            /\ \E id \in RandomIds : BuildAndPut(r, locals[r].pendingList, id)
     ELSE IF ParseThrows(doc)
       THEN /\ failed' = [failed EXCEPT ![r] = @ \cup {"parse"}]
            /\ \E id \in RandomIds : BuildAndPut(r, locals[r].pendingList, id)
     ELSE /\ UNCHANGED failed
          /\ \E id \in RandomIds : BuildAndPut(r, JSONparse(doc), id)
  /\ UNCHANGED <<client, token, web, otherBlobs, clock, doc, req, hist>>

\* The request for the content of pending.json fails: caught like list().
GetFails(r) ==
  /\ pc[r] = "get"
  /\ failed' = [failed EXCEPT ![r] = @ \cup {"get"}]
  /\ \E id \in RandomIds : BuildAndPut(r, locals[r].pendingList, id)
  /\ UNCHANGED <<client, token, web, otherBlobs, clock, doc, req, hist>>

\* The store applies the put: pending.json is replaced as a whole.
PutApplied(r) ==
  /\ pc[r] = "put"
  /\ doc' = Overwrite(doc, locals[r].putBody)
  /\ pc' = [pc EXCEPT ![r] = "putack"]
  /\ writes' = Append(writes, r)
  /\ othersWrote' = [o \in Reqs |-> IF o # r /\ pc[o] # "idle" THEN TRUE ELSE othersWrote[o]]
  /\ UNCHANGED <<client, token, web, otherBlobs, clock, req, timer, locals, resp, calls, failed,
                 docAtStart, overlap, ingested, initialDoc>>

\* put() resolves: the handler answers 200 with the new item.
PutReturns(r) ==
  /\ pc[r] = "putack"
  /\ pc' = [pc EXCEPT ![r] = "done"]
  /\ resp' = [resp EXCEPT ![r] = Response(200, Undefined, locals[r].newItem)]
  /\ ingested' = ingested \o locals[r].newItem
  /\ UNCHANGED <<client, token, web, otherBlobs, clock, doc, req, timer, locals, calls, failed,
                 docAtStart, othersWrote, overlap, writes, initialDoc>>

\* put() rejects after the store applied the write: the answer of the store
\* did not reach the handler (the connection dropped or timed out).
PutAckLost(r) ==
  /\ pc[r] = "putack"
  /\ failed' = [failed EXCEPT ![r] = @ \cup {"put"}]
  /\ Throw(r, Err("BlobError", "Vercel Blob: store request failed"), timer[r])
  /\ UNCHANGED <<client, token, web, otherBlobs, clock, doc, req, locals, calls, hist>>

\* put() rejects: the store refused the write; the error reaches the outer
\* catch through the inner one.
PutFails(r) ==
  /\ pc[r] = "put"
  /\ failed' = [failed EXCEPT ![r] = @ \cup {"put"}]
  /\ Throw(r, Err("BlobError", "Vercel Blob: store request failed"), timer[r])
  /\ UNCHANGED <<client, token, web, otherBlobs, clock, doc, req, locals, calls, hist>>

\* Time passes.
Tick ==
  /\ clock < MaxClock
  /\ clock' = clock + 1
  /\ UNCHANGED <<client, token, web, otherBlobs, doc, pc, req, timer, locals, resp, calls, failed, hist>>

Next ==
  \/ \E r \in Reqs : \E method \in Methods, body \in Bodies : Receive(r, method, body)
  \/ \E r \in Reqs : \E status \in Statuses : FetchResponds(r, status)
  \/ \E r \in Reqs : FetchFails(r)
  \/ \E r \in Reqs : TimerFires(r)
  \/ \E r \in Reqs : \E html \in web : BodyArrives(r, html)
  \/ \E r \in Reqs : BodyFails(r)
  \/ \E r \in Reqs : \E found \in BOOLEAN : ListReturns(r, found)
  \/ \E r \in Reqs : ListFails(r)
  \/ \E r \in Reqs : \E status \in Statuses : GetResponds(r, status)
  \/ \E r \in Reqs : GetFails(r)
  \/ \E r \in Reqs : PutApplied(r)
  \/ \E r \in Reqs : PutReturns(r)
  \/ \E r \in Reqs : PutFails(r)
  \/ \E r \in Reqs : PutAckLost(r)
  \/ Tick

Spec == Init /\ [][Next]_vars

\* The state in which request r2 was an OPTIONS request, answered at once,
\* the credential is configured and the targets serve the long page.
LongInit ==
  /\ token = "vercel_blob_rw_token"
  /\ web = LongPages
  /\ otherBlobs = 0
  /\ clock = 0
  /\ doc \in {Missing, JSONstringify(JSArray(<<>>)), JSONstringify(JSArray(<<OldItem>>))}
  /\ pc = [r \in Reqs |-> IF r = "r2" THEN "done" ELSE "idle"]
  /\ req = [r \in Reqs |-> [method |-> "OPTIONS", body |-> [defined |-> FALSE, url |-> Undefined]]]
  /\ timer = [r \in Reqs |-> "none"]
  /\ locals = [r \in Reqs |-> NoLocals]
  /\ resp = [r \in Reqs |-> IF r = "r2" THEN Response(200, Undefined, <<>>) ELSE NoResponse]
  /\ calls = [r \in Reqs |-> {}]
  /\ failed = [r \in Reqs |-> {}]
  /\ docAtStart = [r \in Reqs |-> IF r = "r2" THEN doc ELSE Missing]
  /\ othersWrote = [r \in Reqs |-> FALSE]
  /\ overlap = FALSE
  /\ writes = <<>>
  /\ ingested = <<>>
  /\ initialDoc = doc
  /\ NoExtract
  /\ NoDashboard
  /\ NoForm

LongSpec == LongInit /\ [][Next]_vars

\* The state in which request r2 was an OPTIONS request, answered at once,
\* the credential is configured and the store holds ListLimit objects
\* besides the queue document.
CrowdInit ==
  /\ token = "vercel_blob_rw_token"
  /\ web = Pages
  /\ otherBlobs = ListLimit
  /\ clock = 0
  /\ doc \in {Missing, JSONstringify(JSArray(<<>>)), JSONstringify(JSArray(<<OldItem>>))}
  /\ pc = [r \in Reqs |-> IF r = "r2" THEN "done" ELSE "idle"]
  /\ req = [r \in Reqs |-> [method |-> "OPTIONS", body |-> [defined |-> FALSE, url |-> Undefined]]]
  /\ timer = [r \in Reqs |-> "none"]
  /\ locals = [r \in Reqs |-> NoLocals]
  /\ resp = [r \in Reqs |-> IF r = "r2" THEN Response(200, Undefined, <<>>) ELSE NoResponse]
  /\ calls = [r \in Reqs |-> {}]
  /\ failed = [r \in Reqs |-> {}]
  /\ docAtStart = [r \in Reqs |-> IF r = "r2" THEN doc ELSE Missing]
  /\ othersWrote = [r \in Reqs |-> FALSE]
  /\ overlap = FALSE
  /\ writes = <<>>
  /\ ingested = <<>>
  /\ initialDoc = doc
  /\ NoExtract
  /\ NoDashboard
  /\ NoForm

CrowdSpec == CrowdInit /\ [][Next]_vars

\* The runtime resumes a handler whose awaited call settled, an armed timer
\* fires when its delay has passed, and the object store answers every
\* call.  The target of the page fetch is under no obligation.
Fairness ==
  \A r \in Reqs :
    /\ WF_vars(TimerFires(r))
    /\ WF_vars((\E found \in BOOLEAN : ListReturns(r, found)) \/ ListFails(r))
    /\ WF_vars((\E status \in Statuses : GetResponds(r, status)) \/ GetFails(r))
    /\ WF_vars(PutApplied(r) \/ PutFails(r))
    /\ WF_vars(PutReturns(r) \/ PutAckLost(r))

FairSpec == Spec /\ Fairness

(***************************************************************************)
(* extractContent alone                                                    *)
(***************************************************************************)

\* No request reaches the handler.
NoRequests ==
  /\ token = Undefined
  /\ web = {}
  /\ otherBlobs = 0
  /\ clock = 0
  /\ doc = Missing
  /\ pc = [r \in Reqs |-> "idle"]
  /\ req = [r \in Reqs |-> [method |-> "OPTIONS", body |-> [defined |-> FALSE, url |-> Undefined]]]
  /\ timer = [r \in Reqs |-> "none"]
  /\ locals = [r \in Reqs |-> NoLocals]
  /\ resp = [r \in Reqs |-> NoResponse]
  /\ calls = [r \in Reqs |-> {}]
  /\ failed = [r \in Reqs |-> {}]
  /\ docAtStart = [r \in Reqs |-> Missing]
  /\ othersWrote = [r \in Reqs |-> FALSE]
  /\ overlap = FALSE
  /\ writes = <<>>
  /\ ingested = <<>>
  /\ initialDoc = doc

ExtractInit ==
  /\ htmlInput \in ExtractInputs
  /\ extractResult = <<>>
  /\ NoRequests
  /\ NoDashboard
  /\ NoForm

\* extractContent(html) returns.
Extract ==
  /\ extractResult = <<>>
  /\ extractResult' = <<extractContent(Html(htmlInput))>>
  /\ UNCHANGED <<htmlInput, handlerVars, dashVars, formVars>>

ExtractNext == Extract

ExtractSpec == ExtractInit /\ [][ExtractNext]_vars

(***************************************************************************)
(* The dashboard alone                                                     *)
(***************************************************************************)

DashInit ==
  /\ news \in NewsInputs
  /\ availableBrands \in BrandsInputs
  /\ shareMetric \in MetricInputs
  /\ share = <<>>
  /\ NoRequests
  /\ NoExtract
  /\ NoForm

\* The Dashboard of part_000 is rendered: useMemo computes brandShareData.
ShareMemo ==
  /\ share = <<>>
  /\ \E brandMap \in {BrandMapAllowed(news, availableBrands)} :
       share' = <<[component |-> "part_000", brandMap |-> brandMap,
                   data |-> brandShareData(brandMap, shareMetric)]>>
  /\ UNCHANGED <<news, availableBrands, shareMetric, handlerVars, extractVars, formVars>>

\* The Dashboard of EntryForm.tsx is rendered: useMemo computes brandShareData.
ShareMemoTop7 ==
  /\ share = <<>>
  /\ \E brandMap \in {BrandMapRaw(news)} :
       share' = <<[component |-> "EntryForm.tsx", brandMap |-> brandMap,
                   data |-> brandShareDataTop7(brandMap, shareMetric)]>>
  /\ UNCHANGED <<news, availableBrands, shareMetric, handlerVars, extractVars, formVars>>

DashNext == ShareMemo \/ ShareMemoTop7

DashSpec == DashInit /\ [][DashNext]_vars

(***************************************************************************)
(* The entry form: promotion, analysis and manual entry                    *)
(***************************************************************************)

\* The form is mounted and the list request of the mount was answered with
\* the queue [PendingA].
AnalyzeInit ==
  /\ activeTab = "spider"
  /\ isProcessing = FALSE
  /\ error = <<>>
  /\ spiderUrl = ""
  /\ isSpidering = FALSE
  /\ pendingItems = <<PendingA>>
  /\ formData = FormData(<<>>, <<>>)
  /\ aiText = <<>>
  /\ aiImageInput = <<>>
  /\ lists = <<[phase |-> "delivered", data |-> <<PendingA>>]>>
  /\ deletes = {}
  /\ analysis = <<>>
  /\ added = <<>>
  /\ failure = <<>>
  /\ queue = pendingItems
  /\ ingests = <<>>
  /\ stale = {}
  /\ NoRequests
  /\ NoExtract
  /\ NoDashboard

\* What no step of the form changes.
outside == <<handlerVars, extractVars, dashVars, spiderUrl, isSpidering, queue, ingests>>

\* A click on a tab; the effect on activeTab calls fetchPendingItems when
\* the spider tab is shown, which issues a list request.
SetActiveTab(tab) ==
  /\ tab # activeTab
  /\ activeTab' = tab
  /\ IF tab = "spider"
       THEN /\ Len(lists) < MaxLists
            /\ lists' = Append(lists, [phase |-> "sent", data |-> <<>>])
       ELSE UNCHANGED lists
  /\ UNCHANGED <<isProcessing, error, pendingItems, formData, aiText, aiImageInput,
                 deletes, analysis, added, failure, stale, outside>>

handleProcessPendingAndDelete(item) ==
  /\ activeTab = "spider"
  /\ item \in Range(pendingItems)
  /\ aiText' = item.text
  /\ aiImageInput' = item.url
  /\ activeTab' = "ai"
  /\ pendingItems' = SelectSeq(pendingItems, LAMBDA i : i.id # item.id)
  /\ deletes' = deletes \cup {item.id}
  /\ UNCHANGED <<isProcessing, error, formData, lists, analysis, added, failure, stale, outside>>

\* The button of a listed item: its text and url fill the AI tab, which is
\* shown; the item is left to the user to delete.
handleProcessPending(item) ==
  /\ activeTab = "spider"
  /\ item \in Range(pendingItems)
  /\ aiText' = item.text
  /\ aiImageInput' = item.url
  /\ activeTab' = "ai"
  /\ UNCHANGED <<isProcessing, error, pendingItems, formData, lists, deletes,
                 analysis, added, failure, stale, outside>>

\* The delete button of a listed item: the item leaves the local list and
\* the DELETE request is sent.
handleDeletePending(id) ==
  /\ activeTab = "spider"
  /\ \E i \in 1..Len(pendingItems) : pendingItems[i].id = id
  /\ pendingItems' = SelectSeq(pendingItems, LAMBDA i : i.id # id)
  /\ deletes' = deletes \cup {id}
  /\ stale' = stale \cup {<<i, id>> : i \in {j \in 1..Len(lists) : lists[j].phase \in {"sent", "answered"}}}
  /\ UNCHANGED <<activeTab, isProcessing, error, formData, aiText, aiImageInput,
                 lists, analysis, added, failure, outside>>

\* A form that reports a DELETE the server did not apply.
DeleteSettlesWithError(id) ==
  /\ id \in deletes
  /\ deletes' = deletes \ {id}
  /\ error' = IF \E i \in 1..Len(queue) : queue[i].id = id
                THEN <<"Delete failed">> ELSE error
  /\ UNCHANGED <<activeTab, isProcessing, pendingItems, formData, aiText,
                 aiImageInput, lists, analysis, added, failure, stale, outside>>

\* The DELETE request resolves or rejects: the form does nothing with either.
DeleteSettles(id) ==
  /\ id \in deletes
  /\ deletes' = deletes \ {id}
  /\ UNCHANGED <<activeTab, isProcessing, error, pendingItems, formData, aiText,
                 aiImageInput, lists, analysis, added, failure, stale, outside>>

\* The user types into the text area of the AI tab.
SetAiText(text) ==
  /\ activeTab = "ai"
  /\ text # aiText
  /\ aiText' = text
  /\ UNCHANGED <<activeTab, isProcessing, error, pendingItems, formData, aiImageInput,
                 lists, deletes, analysis, added, failure, stale, outside>>

\* The user types into the image field of the AI tab.
SetAiImageInput(image) ==
  /\ activeTab = "ai"
  /\ image # aiImageInput
  /\ aiImageInput' = image
  /\ UNCHANGED <<activeTab, isProcessing, error, pendingItems, formData, aiText,
                 lists, deletes, analysis, added, failure, stale, outside>>

\* The analyze button, enabled while no analysis runs and the text is not
\* blank: handleAiAnalyze up to its await.  The rest of the call runs with
\* the aiText and aiImageInput of this render.
handleAiAnalyze ==
  /\ activeTab = "ai"
  /\ ~isProcessing
  /\ Trim(aiText) # <<>>
  /\ isProcessing' = TRUE
  /\ error' = <<>>
  /\ analysis' = <<[text |-> aiText, image |-> aiImageInput]>>
  /\ failure' = <<>>
  /\ UNCHANGED <<activeTab, pendingItems, formData, aiText, aiImageInput, lists,
                 deletes, added, stale, outside>>

\* analyzeTextWithQwen resolves with result: onAdd is called with the
\* record and the two inputs are cleared.
AnalyzerReturns(result, seed) ==
  /\ analysis # <<>>
  /\ \E image \in {analysis[1].image} :
       added' =
         <<[path |-> "ai", input |-> image,
            record |->
              [title |-> result.title, summary |-> result.summary,
               brand |-> result.brand, type |-> result.type, date |-> result.date,
               url |-> IF result.url # <<>> THEN result.url ELSE image,
               source |-> "AI (Qwen)",
               image |-> FinalImage(image,
                           IF result.image_keywords # <<>>
                             THEN result.image_keywords
                             ELSE result.brand \o <<" ", "c", "a", "r", " ", "n", "e", "w", "s">>,
                           seed)]]>>
  /\ aiText' = <<>>
  /\ aiImageInput' = <<>>
  /\ isProcessing' = FALSE
  /\ analysis' = <<>>
  /\ UNCHANGED <<activeTab, error, pendingItems, formData, lists, deletes, failure, stale, outside>>

\* A catch that also clears the two inputs.
AnalyzerFailsAndClears(message) ==
  /\ analysis # <<>>
  /\ error' = <<AnalysisError(message)>>
  /\ failure' = <<message>>
  /\ isProcessing' = FALSE
  /\ analysis' = <<>>
  /\ aiText' = <<>>
  /\ aiImageInput' = <<>>
  /\ UNCHANGED <<activeTab, pendingItems, formData, lists, deletes, added, stale, outside>>

\* analyzeTextWithQwen rejects with an error of this message: the catch
\* sets the message shown.
AnalyzerFails(message) ==
  /\ analysis # <<>>
  /\ error' = <<AnalysisError(message)>>
  /\ failure' = <<message>>
  /\ isProcessing' = FALSE
  /\ analysis' = <<>>
  /\ UNCHANGED <<activeTab, pendingItems, formData, aiText, aiImageInput, lists,
                 deletes, added, stale, outside>>

\* The user types the title and an image URL into the manual tab.
SetFormData(image) ==
  /\ activeTab = "manual"
  /\ formData # FormData(<<"E", "V">>, image)
  /\ formData' = FormData(<<"E", "V">>, image)
  /\ UNCHANGED <<activeTab, isProcessing, error, pendingItems, aiText, aiImageInput,
                 lists, deletes, analysis, added, failure, stale, outside>>

\* The manual form is submitted: onAdd is called with the form data and the
\* final image, and the essential fields are reset.
handleManualSubmit(seed) ==
  /\ activeTab = "manual"
  /\ added' =
       <<[path |-> "manual", input |-> formData.image,
          record |->
            [formData EXCEPT
               !.image = FinalImage(formData.image,
                           formData.brand \o <<" ">> \o formData.title
                             \o <<" ", "a", "u", "t", "o", "m", "o", "t", "i", "v", "e">>,
                           seed)]]>>
  /\ formData' = [formData EXCEPT !.title = <<>>, !.summary = <<>>, !.url = <<>>, !.image = <<>>]
  /\ UNCHANGED <<activeTab, isProcessing, error, pendingItems, aiText, aiImageInput,
                 lists, deletes, analysis, failure, stale, outside>>

AnalyzeNext ==
  \/ \E tab \in {"spider", "ai", "manual"} : SetActiveTab(tab)
  \/ \E item \in PendingInputs : handleProcessPending(item)
  \/ \E item \in PendingInputs : handleDeletePending(item.id)
  \/ \E item \in PendingInputs : DeleteSettles(item.id)
  \/ \E text \in TypedTexts : SetAiText(text)
  \/ \E image \in TypedImages : SetAiImageInput(image)
  \/ handleAiAnalyze
  \/ \E result \in AnalyzerResults, seed \in Seeds : AnalyzerReturns(result, seed)
  \/ \E message \in AnalyzerErrors : AnalyzerFails(message)
  \/ \E image \in TypedImages : SetFormData(image)
  \/ \E seed \in Seeds : handleManualSubmit(seed)

AnalyzeSpec == AnalyzeInit /\ [][AnalyzeNext]_vars

\* The form is mounted and the list request of the mount was answered with
\* a queue of one item, any of PendingInputs.
PromoteInit ==
  /\ activeTab = "spider"
  /\ isProcessing = FALSE
  /\ error = <<>>
  /\ spiderUrl = ""
  /\ isSpidering = FALSE
  /\ \E item \in PendingInputs : pendingItems = <<item>>
  /\ formData = FormData(<<>>, <<>>)
  /\ aiText = <<>>
  /\ aiImageInput = <<>>
  /\ lists = <<[phase |-> "delivered", data |-> pendingItems]>>
  /\ deletes = {}
  /\ analysis = <<>>
  /\ added = <<>>
  /\ failure = <<>>
  /\ queue = pendingItems
  /\ ingests = <<>>
  /\ stale = {}
  /\ NoRequests
  /\ NoExtract
  /\ NoDashboard

PromoteSpec == PromoteInit /\ [][AnalyzeNext]_vars

(***************************************************************************)
(* The entry form: the inbox                                               *)
(***************************************************************************)

\* What the user types into the url input of the spider tab.
SpiderUrls == {"https://auto.test/b"}

\* The ingest requests one form issues.
MaxIngests == 2

\* The item the ingestion of the i-th request stores.
IngestedItem(i) ==
  [id |-> "new" \o ToString(i), title |-> NoTitle, url |-> PendingA.url,
   text |-> Rep("a", MinTextLen), source |-> "auto.test", scrapedAt |-> 0]

\* The messages an ingest request fails with: the error property of a 500
\* answer (a rejected fetch takes the same path with its own message).
IngestErrors == {MsgNoContent}

\* A submit button disabled by the empty input only.
SubmitDisabledEmptyOnly(spidering, url) == url = ""

\* disabled={isSpidering || !spiderUrl}
SubmitDisabled(spidering, url) == spidering \/ url = ""

\* What no step of the inbox changes.
beyondInbox ==
  <<handlerVars, extractVars, dashVars, isProcessing, formData, aiText, aiImageInput,
    analysis, added, failure>>

\* The form was mounted a moment ago: the effect of the mount issued the
\* first list request.
InboxInit ==
  /\ activeTab = "spider"
  /\ isProcessing = FALSE
  /\ error = <<>>
  /\ spiderUrl = ""
  /\ isSpidering = FALSE
  /\ pendingItems = <<>>
  /\ formData = FormData(<<>>, <<>>)
  /\ aiText = <<>>
  /\ aiImageInput = <<>>
  /\ lists = <<[phase |-> "sent", data |-> <<>>]>>
  /\ deletes = {}
  /\ analysis = <<>>
  /\ added = <<>>
  /\ failure = <<>>
  /\ queue \in {<<>>, <<PendingA>>}
  /\ ingests = <<>>
  /\ stale = {}
  /\ NoRequests
  /\ NoExtract
  /\ NoDashboard

\* The refresh button of the spider tab: fetchPendingItems up to its await.
fetchPendingItems ==
  /\ activeTab = "spider"
  /\ Len(lists) < MaxLists
  /\ lists' = Append(lists, [phase |-> "sent", data |-> <<>>])
  /\ UNCHANGED <<activeTab, error, spiderUrl, isSpidering, pendingItems, deletes,
                 queue, ingests, stale, beyondInbox>>

\* GET /api/pending is served: the answer is the queue of this moment.
PendingAnswers(i) ==
  /\ lists[i].phase = "sent"
  /\ lists' = [lists EXCEPT ![i] = [phase |-> "answered", data |-> queue]]
  /\ UNCHANGED <<activeTab, error, spiderUrl, isSpidering, pendingItems, deletes,
                 queue, ingests, stale, beyondInbox>>

\* The answer of list request i arrives with a success status:
\* setPendingItems(data); the answer is kept no longer.
PendingArrives(i) ==
  /\ lists[i].phase = "answered"
  /\ pendingItems' = lists[i].data
  /\ lists' = [lists EXCEPT ![i] = [phase |-> "delivered", data |-> <<>>]]
  /\ stale' = {p \in stale : p[1] # i}
  /\ UNCHANGED <<activeTab, error, spiderUrl, isSpidering, deletes, queue, ingests,
                 beyondInbox>>

\* List request i is rejected, or answered with an error status: the form
\* logs it or does nothing.
PendingFails(i) ==
  /\ lists[i].phase \in {"sent", "answered"}
  /\ lists' = [lists EXCEPT ![i] = [phase |-> "failed", data |-> <<>>]]
  /\ stale' = {p \in stale : p[1] # i}
  /\ UNCHANGED <<activeTab, error, spiderUrl, isSpidering, pendingItems, deletes,
                 queue, ingests, beyondInbox>>

\* DELETE /api/pending?id is served: the item leaves the queue.
DeleteApplied(id) ==
  /\ id \in deletes
  /\ \E i \in 1..Len(queue) : queue[i].id = id
  /\ queue' = SelectSeq(queue, LAMBDA i : i.id # id)
  /\ UNCHANGED <<activeTab, error, spiderUrl, isSpidering, pendingItems, lists, deletes,
                 ingests, stale, beyondInbox>>

\* The user types into the url input of the spider tab.
SetSpiderUrl(url) ==
  /\ activeTab = "spider"
  /\ url # spiderUrl
  /\ spiderUrl' = url
  /\ UNCHANGED <<activeTab, error, isSpidering, pendingItems, lists, deletes, queue,
                 ingests, stale, beyondInbox>>

\* The submit button, unless disabled: handleSpiderSubmit up to its await.
handleSpiderSubmit ==
  /\ activeTab = "spider"
  /\ ~SubmitDisabled(isSpidering, spiderUrl)
  /\ spiderUrl # ""
  /\ Len(ingests) < MaxIngests
  /\ isSpidering' = TRUE
  /\ error' = <<>>
  /\ ingests' = Append(ingests, [phase |-> "sent", url |-> spiderUrl])
  /\ UNCHANGED <<activeTab, spiderUrl, pendingItems, lists, deletes, queue, stale,
                 beyondInbox>>

\* The ingestion of request i puts its item at the head of the queue.
IngestApplied(i) ==
  /\ ingests[i].phase = "sent"
  /\ queue' = <<IngestedItem(i)>> \o queue
  /\ ingests' = [ingests EXCEPT ![i].phase = "applied"]
  /\ UNCHANGED <<activeTab, error, spiderUrl, isSpidering, pendingItems, lists, deletes,
                 stale, beyondInbox>>

\* The 200 answer of ingest request i arrives: the url input is cleared,
\* fetchPendingItems is called and isSpidering is reset.
IngestReturns(i) ==
  /\ ingests[i].phase = "applied"
  /\ Len(lists) < MaxLists
  /\ spiderUrl' = ""
  /\ lists' = Append(lists, [phase |-> "sent", data |-> <<>>])
  /\ isSpidering' = FALSE
  /\ ingests' = [ingests EXCEPT ![i].phase = "ok"]
  /\ UNCHANGED <<activeTab, error, pendingItems, deletes, queue, stale, beyondInbox>>

\* Ingest request i is rejected, or answered with an error status: the
\* message is shown and isSpidering is reset.
IngestFails(i, message) ==
  /\ ingests[i].phase \in {"sent", "applied"}
  /\ error' = <<message>>
  /\ isSpidering' = FALSE
  /\ ingests' = [ingests EXCEPT ![i].phase = "failed"]
  /\ UNCHANGED <<activeTab, spiderUrl, pendingItems, lists, deletes, queue, stale,
                 beyondInbox>>

InboxNext ==
  \/ \E tab \in {"spider", "ai"} : SetActiveTab(tab)
  \/ fetchPendingItems
  \/ \E i \in 1..Len(lists) : PendingAnswers(i)
  \/ \E i \in 1..Len(lists) : PendingArrives(i)
  \/ \E i \in 1..Len(lists) : PendingFails(i)
  \/ \E item \in PendingInputs : handleDeletePending(item.id)
  \/ \E item \in PendingInputs : DeleteApplied(item.id)
  \/ \E item \in PendingInputs : DeleteSettles(item.id)
  \/ \E url \in SpiderUrls : SetSpiderUrl(url)
  \/ handleSpiderSubmit
  \/ \E i \in 1..Len(ingests) : IngestApplied(i)
  \/ \E i \in 1..Len(ingests) : IngestReturns(i)
  \/ \E i \in 1..Len(ingests) : \E message \in IngestErrors : IngestFails(i, message)

InboxSpec == InboxInit /\ [][InboxNext]_vars

(***************************************************************************)
(* Properties                                                              *)
(***************************************************************************)

Done(r) == pc[r] = "done"

\* The store calls among the outbound calls of a request.
QueueCalls(r) == calls[r] \cap {"list", "get", "put"}

\* The items listed by a document; none when it is not a JSON array.
Items(d) ==
  IF d.kind = "json" /\ d.value.type = "array"
    THEN {d.value.elems[i] : i \in 1..Len(d.value.elems)}
    ELSE {}

Last(seq) == seq[Len(seq)]

\* The list request r read, behind the item it put in front.
ReadList(r) == Tail(locals[r].pendingList.elems)

\* Requests a and b were both answered 200 after reading the same list
\* without a failure of the read step, and the put of a was applied before
\* that of b.
BothReadThenWrote(a, b) ==
  /\ a # b
  /\ resp[a].status = 200 /\ resp[a].item # <<>>
  /\ resp[b].status = 200 /\ resp[b].item # <<>>
  /\ failed[a] = {} /\ failed[b] = {}
  /\ ReadList(a) = ReadList(b)
  /\ writes = <<a, b>>
  /\ resp[a].item[1] # resp[b].item[1]
  /\ resp[a].item[1] \notin {ReadList(a)[i] : i \in 1..Len(ReadList(a))}

\* C1: when two requests read the same queue document and then both write
\* and both answer 200, the document is the later writer's list: it holds
\* the later writer's item and not the earlier writer's.
C1_LostUpdate ==
  \A a, b \in Reqs :
    BothReadThenWrote(a, b) =>
      /\ doc = locals[b].putBody
      /\ resp[b].item[1] \in Items(doc)
      /\ resp[a].item[1] \notin Items(doc)

C1_Witness ==
  \E a, b \in Reqs :
    /\ BothReadThenWrote(a, b)
    /\ Items(doc) = {resp[b].item[1]} \cup Items(docAtStart[a])

RECURSIVE Reverse(_)
Reverse(seq) == IF seq = <<>> THEN <<>> ELSE Append(Reverse(Tail(seq)), Head(seq))

\* Every request received so far is an ingestion that was answered 200, and
\* no two of them overlapped in time.
OnlySequentialIngestions ==
  /\ ~overlap
  /\ \A r \in Reqs : pc[r] \in {"idle", "done"}
  /\ \A r \in Reqs : Done(r) => resp[r].status = 200 /\ resp[r].item # <<>>

\* C2: starting from an empty queue document, after successful ingestions
\* that do not overlap the document lists exactly the ingested items,
\* newest first.
C2_NewestFirst ==
  (initialDoc = JSONstringify(JSArray(<<>>)) /\ OnlySequentialIngestions)
    => doc = JSONstringify(JSArray(Reverse(ingested)))

\* C3: after a request answered 200 with item X and no other writer
\* intervened, the queue document contains an item equal to X in all fields.
C3_RoundTrip ==
  \A r \in Reqs :
    (resp[r].status = 200 /\ resp[r].item # <<>> /\ Last(writes) = r)
      => resp[r].item[1] \in Items(doc)

C3_Witness ==
  \E r \in Reqs :
    /\ resp[r].status = 200 /\ resp[r].item # <<>> /\ Last(writes) = r
    /\ Len(writes) = 2
    /\ \E i \in 1..Len(doc.value.elems) :
         doc.value.elems[i].id = resp[r].item[1].id

\* C4: with no concurrent writer, a request in which some step failed
\* leaves every item of the queue document in place.
C4_FailureKeepsItems ==
  \A r \in Reqs :
    (Done(r) /\ failed[r] # {} /\ ~othersWrote[r])
      => Items(docAtStart[r]) \subseteq Items(doc)

\* The read step of request r found no document, or content that is not a
\* JSON array, no other request wrote meanwhile, and the put did not fail.
ReadFoundNoArray(r) ==
  /\ Done(r)
  /\ locals[r].newItem # <<>>
  /\ docAtStart[r] \in {Missing, Garbage, JSONstringify(JSObject)}
  /\ ~othersWrote[r]
  /\ "put" \notin failed[r]

\* C5: when the queue document does not exist or is not a JSON array, the
\* request answers 200 and the document becomes the list of the new item alone.
C5_FailOpenRead ==
  \A r \in Reqs :
    ReadFoundNoArray(r) =>
      /\ resp[r].status = 200
      /\ doc = JSONstringify(JSArray(locals[r].newItem))

\* C6: a request whose extracted text has fewer than 50 characters is
\* answered 500 with the no-usable-content error and makes no store call.
C6_ShortTextRejected ==
  \A r \in Reqs :
    (locals[r].html # <<>> /\ Len(locals[r].text) < MinTextLen)
      => /\ Done(r)
         /\ resp[r].status = 500
         /\ resp[r].error = MsgNoContent
         /\ QueueCalls(r) = {}

C6_Witness ==
  \E r \in Reqs :
    /\ locals[r].html # <<>>
    /\ Len(locals[r].text) = MinTextLen - 1
    /\ resp[r].status = 500

\* The page fetch of request r failed: deadline expiry, non-success status
\* or network error.
PageFetchFailed(r) == failed[r] \cap {"timeout", "status", "network"} # {}

\* C7: a page-fetch failure ends the request with a 500 response carrying an
\* error message, and the request makes no store call.
C7_FetchFailureIs500 ==
  \A r \in Reqs :
    PageFetchFailed(r)
      => /\ Done(r)
         /\ resp[r].status = 500
         /\ resp[r].error \notin {Undefined, ""}
         /\ QueueCalls(r) = {}

C7_Witness ==
  \E a, b \in Reqs :
    /\ "status" \in failed[a] /\ resp[a].status = 500
    /\ "network" \in failed[b] /\ resp[b].status = 500

\* C8: a request is answered with the timeout message exactly when its
\* deadline timer fired during the page fetch; a failure by status or
\* network is then not the reason of the answer.
C8_TimeoutIffTimerFired ==
  \A r \in Reqs :
    /\ Done(r) => ((resp[r].error = MsgTimeout) <=> (timer[r] = "fired"))
    /\ timer[r] = "fired" => (Done(r) /\ failed[r] = {"timeout"})
    /\ failed[r] \cap {"status", "network"} # {} => timer[r] # "fired"

C8_Witness ==
  \E a, b \in Reqs :
    /\ resp[a].error = MsgTimeout /\ timer[a] = "fired"
    /\ "status" \in failed[b] /\ resp[b].error = MsgStatus(404)

\* C9: every request whose page fetch was issued is eventually answered.
C9_EveryRequestAnswered ==
  \A r \in Reqs : (pc[r] = "fetch") ~> Done(r)

\* C10: with the credential absent, a request other than OPTIONS is
\* answered 503 and makes no outbound call.
C10_NoToken503 ==
  \A r \in Reqs :
    (pc[r] # "idle" /\ token \in {Undefined, ""} /\ req[r].method # "OPTIONS")
      => /\ Done(r)
         /\ resp[r].status = 503
         /\ calls[r] = {}
         /\ timer[r] = "none"

C10_Witness ==
  \E a, b \in Reqs :
    /\ token \in {Undefined, ""}
    /\ Done(a) /\ req[a].method = "POST" /\ UrlMissing(req[a].body.url) /\ resp[a].status = 503
    /\ Done(b) /\ req[b].method = "GET" /\ resp[b].status = 503

\* C11: with the credential configured, a POST whose url is missing or empty
\* is answered 400; no deadline timer is armed, no page fetch is issued and
\* the queue document is neither read nor written.
C11_MissingUrl400 ==
  \A r \in Reqs :
    (pc[r] # "idle" /\ ~TokenMissing(token) /\ req[r].method = "POST"
       /\ UrlMissing(req[r].body.url))
      => /\ Done(r)
         /\ resp[r].status = 400
         /\ timer[r] = "none"
         /\ calls[r] = {}

\* C16: in every reachable queue document no two items have the same id,
\* whatever the sequence or interleaving of requests, the id of each new
\* item being drawn at random without a check against the stored ids.
C16_UniqueIds ==
  (doc.kind = "json" /\ doc.value.type = "array") =>
    \A i, j \in 1..Len(doc.value.elems) :
      doc.value.elems[i].id = doc.value.elems[j].id => i = j

\* C17: every item the handler writes to the queue document has a text of
\* at least 50 and at most 5000 characters.
C17_TextLength ==
  /\ \A r \in Reqs :
       "put" \in calls[r] =>
         /\ Len(locals[r].newItem[1].text) >= MinTextLen
         /\ Len(locals[r].newItem[1].text) <= TextLimit
  /\ \A item \in Items(doc) \ Items(initialDoc) :
       Len(item.text) >= MinTextLen /\ Len(item.text) <= TextLimit

C17_Witness ==
  \E r \in Reqs :
    /\ resp[r].status = 200
    /\ locals[r].html = <<PageLong>>
    /\ resp[r].item[1] \in Items(doc)
    /\ Len(resp[r].item[1].text) = TextLimit

PlainText(x) == x # <<>> /\ \A i \in 1..Len(x) : x[i] # "<"

C19_NoBlockToken ==
  extractResult # <<>> =>
    \A i \in 1..Len(extractResult[1].text) : extractResult[1].text[i] # "Z"

RECURSIVE SumTotals(_, _)
SumTotals(nodes, i) == IF i > Len(nodes) THEN 0 ELSE nodes[i].total + SumTotals(nodes, i + 1)

\* The records whose brand is not available.
Unlisted == {i \in 1..Len(news) : news[i].brand \notin Range(availableBrands)}

\* C20: in the brand-share aggregation every record whose brand is not in
\* availableBrands is counted under the single bucket 'Other' and never
\* under its own brand name, and the totals of all buckets before the
\* truncation add up to the number of records.
C20_OtherBucket ==
  share # <<>> =>
    LET brandMap == share[1].brandMap IN
    /\ \A i \in Unlisted :
         news[i].brand # "Other" => ~HasNode(brandMap, news[i].brand)
    /\ Unlisted # {} =>
         \E j \in 1..Len(brandMap) :
           /\ brandMap[j].name = "Other"
           /\ brandMap[j].total =
                Cardinality(Unlisted \cup {i \in 1..Len(news) : news[i].brand = "Other"})
    /\ SumTotals(brandMap, 1) = Len(news)

\* The same, for the Dashboard of part_000 alone.
AllowListVariantOnly == (share # <<>> /\ share[1].component = "part_000") => C20_OtherBucket

\* A step of the promotion of an item: handleProcessPending, or
\* handleAiAnalyze from the click to the result or the error of the
\* analyzer.
PromotionStep ==
  \/ \E item \in {PendingA} : handleProcessPending(item)
  \/ handleAiAnalyze
  \/ \E result \in AnalyzerResults, seed \in Seeds : AnalyzerReturns(result, seed)
  \/ \E message \in AnalyzerErrors : AnalyzerFails(message)

\* C12: promotion never removes the source item: no step of
\* handleProcessPending or of handleAiAnalyze, whether the analyzer
\* succeeds or fails, sends a DELETE request or changes pendingItems (a
\* step that does either is no step of theirs).
C12_PromotionKeepsItem ==
  [][(pendingItems' # pendingItems \/ deletes' # deletes) => ~PromotionStep]_vars

C12_Witness ==
  /\ added # <<>>
  /\ added[1].path = "ai"
  /\ added[1].input = PendingA.url
  /\ pendingItems = <<PendingA>>
  /\ deletes = {}

\* url is a URL made by generateImageUrl.
Generated(url) == MatchAt(url, 1, ImagePrefix, FALSE)

\* C13: every record passed to onAdd, by the manual form or by the AI path,
\* has an image that is not empty; when the image input is empty or blank
\* the image is a generated-image URL.
C13_ImageNeverEmpty ==
  added # <<>> =>
    /\ added[1].record.image # <<>>
    /\ (\A i \in 1..Len(added[1].input) : added[1].input[i] = " ")
         => Generated(added[1].record.image)

C13_Witness ==
  /\ added # <<>>
  /\ added[1].path = "ai"
  /\ added[1].input = <<" ">>
  /\ Generated(added[1].record.image)
  /\ formData.image = <<" ">>

\* C14: every record committed from an analyzer result has a type among
\* the six values of the enumeration (a type outside it is committed as
\* "other").
C14_TypeInEnumeration ==
  (added # <<>> /\ added[1].path = "ai") => added[1].record.type \in NewsTypes

\* The text of the last analyzer error has pat in it.
FailedWith(pat) == Includes(IF failure[1] = <<>> THEN MsgUnknown ELSE failure[1], pat)

\* C15: an analyzer failure sets exactly one message: the authentication
\* message when the error text has "API Key", "401" or "403" in it;
\* otherwise the response-shape message when it has "JSON" in it; otherwise
\* the generic message with the error text in it.
C15_FailureMessage ==
  failure # <<>> =>
    /\ Len(error) = 1
    /\ error[1] \in {MsgAuth, MsgShape, MsgGeneric(IF failure[1] = <<>> THEN MsgUnknown ELSE failure[1])}
    /\ error[1] = MsgAuth <=>
         \/ FailedWith(<<"A", "P", "I", " ", "K", "e", "y">>)
         \/ FailedWith(<<"4", "0", "1">>)
         \/ FailedWith(<<"4", "0", "3">>)
    /\ error[1] = MsgShape <=>
         /\ FailedWith(<<"J", "S", "O", "N">>)
         /\ ~FailedWith(<<"A", "P", "I", " ", "K", "e", "y">>)
         /\ ~FailedWith(<<"4", "0", "1">>)
         /\ ~FailedWith(<<"4", "0", "3">>)

C15_Witness ==
  /\ failure # <<>>
  /\ FailedWith(<<"J", "S", "O", "N">>)
  /\ FailedWith(<<"4", "0", "3">>)
  /\ error = <<MsgAuth>>

\* The calls request r has issued so far are in the order of the code, one
\* at a time: the store is listed after the page was fetched and its text
\* extracted, the queue document is fetched after the listing answered, and
\* the put is issued after the read step ended.
StepsInOrder(r) ==
  /\ "list" \in calls[r] =>
       /\ "page" \in calls[r]
       /\ pc[r] \notin {"fetch", "text"}
       /\ locals[r].html # <<>>
       /\ locals[r].text = extracted[locals[r].html[1]].text
       /\ locals[r].title = extracted[locals[r].html[1]].title
  /\ "get" \in calls[r] => ("list" \in calls[r] /\ pc[r] # "list" /\ "list" \notin failed[r])
  /\ "put" \in calls[r] => ("list" \in calls[r] /\ pc[r] \notin {"list", "get"})
  /\ pc[r] = "list" => calls[r] = {"page", "list"}
  /\ pc[r] = "get" => calls[r] = {"page", "list", "get"}

\* In a step in which request r issues its put, the body of the put is the
\* list r read in this step (the content of pending.json delivered to it, or
\* [] when the read step found no document or failed) behind its new item.
PutsWhatItRead(r) ==
  ("put" \notin calls[r] /\ "put" \in calls'[r]) =>
    /\ locals'[r].newItem # <<>>
    /\ locals'[r].putBody =
         JSONstringify(JSArray(
           locals'[r].newItem \o
             (IF pc[r] = "get" /\ failed'[r] = failed[r] THEN doc.value.elems ELSE <<>>)))

\* C21: within one ingestion request the steps are strictly ordered: page
\* fetch and extraction before the listing, the listing before the fetch of
\* the queue document, the write only after the read step completed or
\* failed; and the list written is the list this request read with its new
\* item in front.
C21_StepsOrdered ==
  /\ [](\A r \in Reqs : StepsInOrder(r))
  /\ [][\A r \in Reqs : PutsWhatItRead(r)]_vars

C21_Witness ==
  \E r \in Reqs :
    /\ calls[r] = {"page", "list", "get", "put"}
    /\ failed[r] = {}
    /\ Len(locals[r].putBody.value.elems) = 2
    /\ locals[r].putBody.value.elems[2] = OldItem
    /\ pc[r] = "put"

\* The number of puts of request r the store applied.
WritesOf(r) == Cardinality({i \in 1..Len(writes) : writes[i] = r})

\* C22: a request issues at most one write and never retries it; it answers
\* 200 success only after its write was applied; and when its write failed
\* it answers 500 with the error message and the store did not apply the
\* write, so the document is as it was before.
C22_SingleWrite ==
  \A r \in Reqs :
    /\ WritesOf(r) <= 1
    /\ (resp[r].status = 200 /\ resp[r].item # <<>>) => WritesOf(r) = 1
    /\ "put" \in failed[r] =>
         /\ Done(r)
         /\ resp[r].status = 500
         /\ resp[r].error \notin {Undefined, ""}
         /\ WritesOf(r) = 0

\* The items built by the requests that reached their write step.
BuiltItems == {locals[r].newItem[1] : r \in {q \in Reqs : "put" \in calls[q]}}

\* The ids drawn so far differ from each other and from the ids stored before.
FreshIds ==
  /\ \A a, b \in Reqs :
       (a # b /\ locals[a].newItem # <<>> /\ locals[b].newItem # <<>>)
         => locals[a].newItem[1].id # locals[b].newItem[1].id
  /\ \A a \in Reqs : \A old \in Items(initialDoc) :
       locals[a].newItem # <<>> => locals[a].newItem[1].id # old.id

\* No element of seq occurs at two positions.
NoRepeat(seq) == \A i, j \in 1..Len(seq) : i # j => seq[i] # seq[j]

\* C23: under any interleaving, every item of the queue document was stored
\* before or built by a request that reached its write step; after a write
\* the head of the document is the writer's new item; and with fresh ids no
\* item occurs twice in the document.
C23_ItemsFromWriters ==
  /\ Items(doc) \subseteq (Items(initialDoc) \cup BuiltItems)
  /\ writes # <<>> =>
       /\ doc = locals[Last(writes)].putBody
       /\ doc.value.elems[1] = locals[Last(writes)].newItem[1]
  /\ (FreshIds /\ doc.kind = "json" /\ doc.value.type = "array") => NoRepeat(doc.value.elems)

C23_Witness ==
  /\ Len(writes) = 2
  /\ overlap
  /\ FreshIds
  /\ Len(doc.value.elems) = 3
  /\ doc.value.elems[3] = OldItem

\* Request r was answered 200, every step of it succeeded, pending.json was
\* a JSON array when it arrived, and no other request wrote meanwhile.
IngestedOverReadableDoc(r) ==
  /\ resp[r].status = 200 /\ resp[r].item # <<>>
  /\ failed[r] = {}
  /\ docAtStart[r].kind = "json" /\ docAtStart[r].value.type = "array"
  /\ ~othersWrote[r]

\* C24: when the queue document exists and is readable, a successful
\* ingestion keeps all of its items, however many other objects the store
\* holds, also when it holds more than the listing returns.
C24_KeepsItemsInLargeStore ==
  \A r \in Reqs :
    IngestedOverReadableDoc(r) => Items(docAtStart[r]) \subseteq Items(doc)

\* C30: a request that armed its deadline timer and was answered no longer
\* has the timer armed (it was cancelled, or it had fired and caused the
\* answer); the timer is never armed while the queue is read or written; and
\* when it fires the page fetch of the request is outstanding.
C30_TimerCancelled ==
  /\ [](\A r \in Reqs :
          /\ Done(r) => timer[r] # "armed"
          /\ pc[r] \in {"list", "get", "put", "putack"} => timer[r] = "cleared"
          /\ (Done(r) /\ timer[r] = "fired") => resp[r].error = MsgTimeout)
  /\ [][\A r \in Reqs :
          (timer[r] # "fired" /\ timer'[r] = "fired") => (pc[r] = "fetch" /\ pc'[r] = "done")]_vars

C30_Witness ==
  \E a, b \in Reqs :
    /\ Done(a) /\ timer[a] = "cleared" /\ "network" \in failed[a]
    /\ Done(b) /\ timer[b] = "cleared" /\ resp[b].status = 200 /\ resp[b].item # <<>>

\* A step in which the outstanding call of analyzeTextWithQwen settles and
\* the invocation of handleAiAnalyze that made it finishes.
AnalysisFinishes == analysis # <<>> /\ analysis' = <<>>

\* What a step does when the invocation finishes, and what any other step
\* leaves alone: the only call of onAdd by handleAiAnalyze is the one of a
\* finishing step whose analysis succeeded.
AnalyzeOutcome ==
  IF AnalysisFinishes
    THEN /\ isProcessing' = FALSE
         /\ \/ /\ failure' # <<>>
               /\ added' = added
               /\ aiText' = aiText
               /\ aiImageInput' = aiImageInput
            \/ /\ failure' = <<>>
               /\ Len(added') = 1
               /\ added'[1].path = "ai"
               /\ added'[1].input = analysis[1].image
               /\ aiText' = <<>>
               /\ aiImageInput' = <<>>
    ELSE added' = added \/ (Len(added') = 1 /\ added'[1].path = "manual")

\* C27: handleAiAnalyze calls onAdd at most once per invocation and only
\* after the analyzer returned a result; it calls the analyzer with no
\* empty or blank text; on failure no record is created and aiText and
\* aiImageInput keep their values, on success both are cleared; and
\* isProcessing is true exactly while the invocation is running.
C27_AnalyzeOutcome ==
  /\ [](/\ isProcessing <=> analysis # <<>>
        /\ Len(analysis) <= 1
        /\ Len(added) <= 1
        /\ analysis # <<>> => Trim(analysis[1].text) # <<>>)
  /\ [][AnalyzeOutcome]_vars

C27_Witness ==
  /\ failure # <<>>
  /\ ~isProcessing
  /\ analysis = <<>>
  /\ added = <<>>
  /\ aiText = PendingA.text
  /\ aiImageInput = PendingA.url

\* The record of the last onAdd call was made by an analysis whose image
\* input was the url of item, as handleProcessPending left it.
PromotedRecord(item) ==
  /\ added # <<>>
  /\ added[1].path = "ai"
  /\ added[1].input = item.url

\* The url of the record is the analyzer's when that is not empty, and the
\* article url otherwise.
UrlPreferred(record, item) ==
  \E result \in AnalyzerResults :
    /\ record.brand = result.brand
    /\ record.url = IF result.url # <<>> THEN result.url ELSE item.url

\* C29: the record committed for a pending item sent to analysis by
\* handleProcessPending, the image field left alone, has the article url of
\* the item as its image and no generated-image URL; its url is the
\* analyzer's url when not empty and the article url otherwise.
C29_ImageIsArticleUrl ==
  \A item \in PendingInputs :
    PromotedRecord(item) =>
      /\ added[1].record.image = item.url
      /\ ~Generated(added[1].record.image)
      /\ UrlPreferred(added[1].record, item)

\* C29 as the code has it: the image is the article url without the white
\* space around it.
C29_ImageIsTrimmedArticleUrl ==
  \A item \in PendingInputs :
    PromotedRecord(item) =>
      /\ added[1].record.image = Trim(item.url)
      /\ ~Generated(added[1].record.image)
      /\ UrlPreferred(added[1].record, item)

C29_Witness ==
  /\ PromotedRecord(PendingB)
  /\ added[1].record.image = PendingA.url
  /\ added[1].record.url = PendingB.url
  /\ pendingItems = <<PendingB>>

\* A step in which the answer of list request i reaches the form.
AnswerArrives(i) == lists[i].phase = "answered" /\ lists'[i].phase = "delivered"

\* The ids of the items of a list.
Ids(items) == {items[k].id : k \in 1..Len(items)}

\* C25: the answer of a list request that arrives after the answer of a
\* request issued later does not replace the newer snapshot, and the answer
\* of a request that was in flight when handleDeletePending removed an item
\* does not put the item back; so pendingItems ends up as the answer of the
\* most recently issued request.
C25_LatestListWins ==
  [][\A i \in 1..Len(lists) :
       AnswerArrives(i) =>
         /\ (\E j \in (i + 1)..Len(lists) : lists[j].phase = "delivered")
              => pendingItems' = pendingItems
         /\ \A item \in PendingInputs :
              <<i, item.id>> \in stale => item.id \notin Ids(pendingItems')]_vars

\* C26: handleDeletePending removes the item from pendingItems in the step
\* that sends the DELETE; when the DELETE settles, applied or not, the form
\* changes neither the list nor the message shown; and an item comes back
\* into the list only with the answer of a list request.
C26_OptimisticDelete ==
  [][\A item \in PendingInputs :
       /\ (item.id \notin deletes /\ item.id \in deletes')
            => (item.id \in Ids(pendingItems) /\ item.id \notin Ids(pendingItems'))
       /\ (item.id \in deletes /\ item.id \notin deletes')
            => (pendingItems' = pendingItems /\ error' = error)
       /\ (item.id \notin Ids(pendingItems) /\ item.id \in Ids(pendingItems'))
            => \E i \in 1..Len(lists) : AnswerArrives(i)]_vars

\* The DELETE of PendingA failed: the queue has the item, the list lacks it
\* and no message is shown.
C26_Witness ==
  /\ lists = <<[phase |-> "delivered", data |-> <<>>]>>
  /\ ingests = <<>>
  /\ deletes = {}
  /\ stale = {}
  /\ queue = <<PendingA>>
  /\ pendingItems = <<>>
  /\ error = <<>>

\* The ingest requests of the form that are outstanding.
Outstanding == {i \in 1..Len(ingests) : ingests[i].phase \in {"sent", "applied"}}

\* What the step that ends ingest request i does.
IngestOutcome(i) ==
  /\ (ingests[i].phase \in {"sent", "applied"} /\ ingests'[i].phase = "ok") =>
       /\ ~isSpidering'
       /\ spiderUrl' = ""
       /\ lists' = Append(lists, [phase |-> "sent", data |-> <<>>])
       /\ error' = error
  /\ (ingests[i].phase \in {"sent", "applied"} /\ ingests'[i].phase = "failed") =>
       /\ ~isSpidering'
       /\ Len(error') = 1
       /\ error'[1] \in IngestErrors
       /\ spiderUrl' = spiderUrl
       /\ lists' = lists

\* C28: isSpidering is true exactly while an ingest request of the form is
\* outstanding; a success clears the url input and issues a list request; a
\* failure sets the message, keeps the url input and issues no list
\* request; and at most one ingest request is outstanding.
C28_OneIngestAtATime ==
  /\ [](/\ isSpidering <=> Outstanding # {}
        /\ Cardinality(Outstanding) <= 1)
  /\ [][\A i \in 1..Len(ingests) : IngestOutcome(i)]_vars

C28_Witness ==
  /\ Len(ingests) = 2
  /\ ingests[1].phase = "ok"
  /\ ingests[2].phase = "failed"
  /\ ~isSpidering
  /\ error = <<MsgNoContent>>
  /\ spiderUrl # ""

====
